---- MODULE Spec2Model ----
(***************************************************************************)
(* Model of core/scripts/migrate_archives.py: the migration of legacy      *)
(* archive tables to the dbt_ column names, table by table, with a backup  *)
(* copy, a backend-dependent rename strategy and the emission of a new     *)
(* archive definition file.  One action per statement handed to the        *)
(* adapter or to the file system; the log records them in issue order.     *)
(***************************************************************************)
EXTENDS Naturals, Sequences, FiniteSets, TLC

\* ------------------------------------------------------------------ bounds
\* The archive groups of a configuration, and the tables they list in all.
MaxGroups == 2
MaxTables == 3

\* ------------------------------------------------------------ input domain
Absent == "<absent>"
DefaultDatabase == "D"
Identifiers == {"t1", "t2"}
\* adapter.type(): the three backends the script's comments and branches have
\* in mind, and "other" for any adapter type it does not name.
AdapterTypes == {"bigquery", "postgres", "snowflake", "other"}
SchemaOpt == {Absent, "sch"}
DatabaseOpt == {Absent, "db1"}

\* A raw table entry of dbt_project.yml (the dict copied at line 122).
TableEntry(id) ==
    [source_table |-> id, target_table |-> id,
     unique_key |-> "id", updated_at |-> "updated_at"]

RECURSIVE SeqsUpTo(_, _)
SeqsUpTo(S, len) ==
    IF len = 0 THEN {<<>>}
    ELSE LET shorter == SeqsUpTo(S, len - 1)
         IN  shorter \cup {Append(s, x) : s \in shorter, x \in S}

\* An archive group of cfg.archive listing at most len tables; a key the
\* group omits has value Absent.  The two optional database keys are given
\* or omitted together.
Groups(len) ==
    {[target_schema |-> ts, source_schema |-> ss,
      target_database |-> db, source_database |-> db, tables |-> tables] :
        ts \in SchemaOpt, ss \in SchemaOpt, db \in DatabaseOpt,
        tables \in SeqsUpTo({TableEntry(id) : id \in Identifiers}, len)}

IsValid(group) ==
    group.target_schema # Absent /\ group.source_schema # Absent

\* The configurations of at most groups groups and len tables.  The generator
\* stops at the first group without a schema and never reads the groups
\* after it, so a configuration is drawn up to and including that group.
RECURSIVE ConfigsUpTo(_, _)
ConfigsUpTo(groups, len) ==
    IF groups = 0 THEN {<<>>}
    ELSE {<<>>} \cup
         UNION {IF IsValid(g)
                THEN {<<g>> \o rest :
                         rest \in ConfigsUpTo(groups - 1,
                                              len - Len(g.tables))}
                ELSE {<<g>>} : g \in Groups(len)}

Configs == ConfigsUpTo(MaxGroups, MaxTables)

\* --------------------------------------------------------------- constants
RENAME_COLUMNS ==
    << <<"valid_from", "dbt_valid_from">>,
       <<"valid_to", "dbt_valid_to">>,
       <<"scd_id", "dbt_scd_id">> >>

\* Columns of a legacy archive table, as the old archival code created them.
LegacyColumns ==
    << [name |-> "id", data |-> "id"],
       [name |-> "valid_from", data |-> "valid_from"],
       [name |-> "valid_to", data |-> "valid_to"],
       [name |-> "scd_id", data |-> "scd_id"],
       [name |-> "dbt_updated_at", data |-> "dbt_updated_at"] >>

VARIABLES
    cfg,              \* cfg.archive: the archive groups of the project
    adapter_type,     \* adapter.type()
    migrate_database, \* parsed.migrate_database
    write_files,      \* parsed.write_files
    pc,               \* position of main()
    gen,              \* position of the get_archive_configs generator
    n,                \* number of targets the generator has yielded
    archive,          \* the table_copy yielded last
    target,           \* the relation of the current table
    contents,         \* the file contents built for the current table
    backup,           \* the backup relation of the current table
    k,                \* index of the next pair in migrate_archive_alter_table
    database,         \* the warehouse: relation -> columns
    txn_open,         \* the session has an open transaction
    files,            \* the files under archive_path: path -> contents
    log,              \* statements and file emissions, in issue order
    backups_made,     \* main's backups_made
    archives_written, \* main's archives_written
    err,              \* the exception that ended the run, if any
    summary,          \* the end-of-run report, once logged
    rename_columns,   \* the module global RENAME_COLUMNS as it is bound now
    renames           \* the local renames of migrate_archive_alter_table

vars == <<cfg, adapter_type, migrate_database, write_files, pc, gen, n,
          archive, target, contents, backup, k, database, txn_open, files,
          log, backups_made, archives_written, err, summary,
          rename_columns, renames>>

NoRelation == [database |-> Absent, schema |-> Absent, identifier |-> Absent]
NoSummary == [emitted |-> FALSE, backups |-> <<>>, archives |-> <<>>]

Relation(db, schema, id) ==
    [database |-> db, schema |-> schema, identifier |-> id]

\* Every table an archive group can name exists, with the legacy columns.
InitialRelations ==
    {Relation(db, s, id) : db \in {DefaultDatabase, "db1"},
                           s \in SchemaOpt \ {Absent}, id \in Identifiers}

Init ==
    /\ cfg \in Configs
    /\ adapter_type \in AdapterTypes
    /\ migrate_database \in BOOLEAN
    /\ write_files \in BOOLEAN
    /\ pc = "loop"
    /\ gen = [g |-> 0, t |-> 0]
    /\ n = 0
    /\ archive = <<>>
    /\ target = NoRelation
    /\ contents = <<>>
    /\ backup = NoRelation
    /\ k = 1
    /\ database = [r \in InitialRelations |-> LegacyColumns]
    /\ txn_open = FALSE
    /\ files = <<>>
    /\ log = <<>>
    /\ backups_made = <<>>
    /\ archives_written = <<>>
    /\ err = "none"
    /\ summary = NoSummary
    /\ rename_columns = RENAME_COLUMNS
    /\ renames = <<>>

\* ------------------------------------------------------------ plan builder
\* archive.get(key, default)
Get(group, key, default) ==
    IF group[key] = Absent THEN default ELSE group[key]

\* Mutant: both database keys of the copy are read from the group's
\* target_database.
TableCopy_one_database(group, table) ==
    [source_table |-> table.source_table,
     target_table |-> table.target_table,
     unique_key |-> table.unique_key,
     updated_at |-> table.updated_at,
     target_database |-> Get(group, "target_database", DefaultDatabase),
     target_schema |-> group.target_schema,
     source_database |-> Get(group, "target_database", DefaultDatabase),
     source_schema |-> group.source_schema]

\* The table_copy built at lines 122-126.
TableCopy(group, table) ==
    [source_table |-> table.source_table,
     target_table |-> table.target_table,
     unique_key |-> table.unique_key,
     updated_at |-> table.updated_at,
     target_database |-> Get(group, "target_database", DefaultDatabase),
     target_schema |-> group.target_schema,
     source_database |-> Get(group, "source_database", DefaultDatabase),
     source_schema |-> group.source_schema]

\* Mutant: the schema subscripts are evaluated inside the loop over the
\* group's tables, so a group without tables is passed over unchecked.
RECURSIVE EnterGroup_lazy(_, _)
EnterGroup_lazy(archives, h) ==
    IF h > Len(archives) THEN [kind |-> "stop", g |-> h, t |-> 0]
    ELSE IF Len(archives[h].tables) = 0 THEN EnterGroup_lazy(archives, h + 1)
    ELSE IF archives[h].target_schema = Absent
              \/ archives[h].source_schema = Absent
         THEN [kind |-> "error", g |-> h, t |-> 0]
    ELSE [kind |-> "yield", g |-> h, t |-> 1]

\* Mutant: source_schema is read with a default, only target_schema is
\* required.
RECURSIVE EnterGroup_target_only(_, _)
EnterGroup_target_only(archives, h) ==
    IF h > Len(archives) THEN [kind |-> "stop", g |-> h, t |-> 0]
    ELSE IF archives[h].target_schema = Absent
         THEN [kind |-> "error", g |-> h, t |-> 0]
    ELSE IF Len(archives[h].tables) = 0
         THEN EnterGroup_target_only(archives, h + 1)
    ELSE [kind |-> "yield", g |-> h, t |-> 1]

\* The generator reaches the head of group h (lines 116-121): the subscripts
\* archive['target_schema'] and archive['source_schema'] raise KeyError
\* before the group's tables are looked at.
RECURSIVE EnterGroup(_, _)
EnterGroup(archives, h) ==
    IF h > Len(archives) THEN [kind |-> "stop", g |-> h, t |-> 0]
    ELSE IF archives[h].target_schema = Absent
              \/ archives[h].source_schema = Absent
         THEN [kind |-> "error", g |-> h, t |-> 0]
    ELSE IF Len(archives[h].tables) = 0 THEN EnterGroup(archives, h + 1)
    ELSE [kind |-> "yield", g |-> h, t |-> 1]

\* Mutant: the yield sits outside the loop over the group's tables, so only
\* the first table of a group is handed out.
get_archive_configs_first_only(archives, p) ==
    EnterGroup(archives, p.g + 1)

\* next() on the generator of get_archive_configs, resumed after position p.
get_archive_configs(archives, p) ==
    IF p.g >= 1 /\ p.g <= Len(archives) /\ p.t < Len(archives[p.g].tables)
    THEN [kind |-> "yield", g |-> p.g, t |-> p.t + 1]
    ELSE EnterGroup(archives, p.g + 1)

\* ------------------------------------------------------ definition generator
\* adapter.quote_as_configured(identifier, key), left to the adapter.
quote_as_configured(identifier, key) ==
    [quote_as_configured |-> identifier, key |-> key]

build_archive_data(a) ==
    [name |-> a.target_table,
     kwargs |-> [target_database |-> a.target_database,
                 target_schema |-> a.target_schema,
                 updated_at |-> a.updated_at,
                 strategy |-> "timestamp",
                 unique_key |-> a.unique_key],
     source_relation |->
         << quote_as_configured(a.source_database, "database"),
            quote_as_configured(a.source_schema, "schema"),
            quote_as_configured(a.source_table, "identifier") >>]

\* -------------------------------------------------------------- the adapter
\* adapter.quote(identifier): backticks on bigquery, double quotes elsewhere.
\* (A TLA+ string cannot hold the backtick character: Backtick stands for it.)
Backtick == "<backtick>"

Quote(type, name) ==
    IF type = "bigquery" THEN Backtick \o name \o Backtick
    ELSE "\"" \o name \o "\""

ColumnNames ==
    {"id", "valid_from", "valid_to", "scd_id", "dbt_updated_at",
     "dbt_valid_from", "dbt_valid_to", "dbt_scd_id"}

Upper(name) ==
    CASE name = "id" -> "ID"
      [] name = "valid_from" -> "VALID_FROM"
      [] name = "valid_to" -> "VALID_TO"
      [] name = "scd_id" -> "SCD_ID"
      [] name = "dbt_updated_at" -> "DBT_UPDATED_AT"
      [] name = "dbt_valid_from" -> "DBT_VALID_FROM"
      [] name = "dbt_valid_to" -> "DBT_VALID_TO"
      [] name = "dbt_scd_id" -> "DBT_SCD_ID"
      [] OTHER -> name

\* The column an identifier of a statement denotes: a quoted identifier
\* denotes itself, an unquoted one is folded to upper case on snowflake.
ResolveIdentifier(type, ident) ==
    IF \E c \in ColumnNames : Quote(type, c) = ident
    THEN CHOOSE c \in ColumnNames : Quote(type, c) = ident
    ELSE IF type = "snowflake" THEN Upper(ident) ELSE ident

NamesOf(cols) == {cols[i].name : i \in 1..Len(cols)}

\* 'create table <new> as (select * from <src>)'
CanCreateTableAs(db, new, src) ==
    new \notin DOMAIN db /\ src \in DOMAIN db

CreateTableAs(db, new, src) == (new :> db[src]) @@ db

\* 'alter table <rel> rename column <old> to <new>'
CanRenameColumn(db, rel, old, new) ==
    /\ rel \in DOMAIN db
    /\ old \in NamesOf(db[rel])
    /\ new = old \/ new \notin NamesOf(db[rel])

RenameColumn(db, rel, old, new) ==
    [db EXCEPT ![rel] =
        [i \in 1..Len(@) |->
            IF @[i].name = old THEN [@[i] EXCEPT !.name = new] ELSE @[i]]]

\* 'select * EXCEPT(<olds>), <old> as <new>, ... from <rel>' materialized
\* over <rel> by connections.create_table.
CanProject(db, rel, pairs) ==
    /\ rel \in DOMAIN db
    /\ \A i \in 1..Len(pairs) : pairs[i][1] \in NamesOf(db[rel])

ColumnNamed(cols, name) ==
    cols[CHOOSE i \in 1..Len(cols) : cols[i].name = name]

Project(db, rel, pairs) ==
    LET olds == {pairs[i][1] : i \in 1..Len(pairs)}
        kept(c) == c.name \notin olds
    IN  [db EXCEPT ![rel] =
            SelectSeq(@, kept) \o
            [i \in 1..Len(pairs) |->
                [name |-> pairs[i][2],
                 data |-> ColumnNamed(@, pairs[i][1]).data]]]

RECURSIVE Join(_, _)
Join(strs, sep) ==
    IF Len(strs) = 0 THEN ""
    ELSE IF Len(strs) = 1 THEN strs[1]
    ELSE strs[1] \o sep \o Join(Tail(strs), sep)

\* ------------------------------------------------------------------- main()
Entry(kind, rel, arg, ok) ==
    [idx |-> n, kind |-> kind, rel |-> rel, arg |-> arg, ok |-> ok]

\* Mutant: a failed statement is followed by a rollback statement before the
\* exception leaves main().
Raise_rollback(entry, exception) ==
    /\ log' = Append(Append(log, entry),
                     [entry EXCEPT !.kind = "rollback", !.arg = <<>>,
                                   !.ok = TRUE])
    /\ err' = exception
    /\ pc' = "aborted"

\* Mutant: perform_table_migration is wrapped in a try/except that logs the
\* exception, and the loop body goes on to the file emission.
Raise_caught(entry, exception) ==
    /\ log' = Append(log, entry)
    /\ err' = exception
    /\ pc' = IF write_files THEN "write" ELSE "loop"

\* Mutant: the loop body is wrapped in a try/except that logs the exception,
\* and the loop goes on to the next table.
Raise_next_table(entry, exception) ==
    /\ log' = Append(log, entry)
    /\ err' = exception
    /\ pc' = "loop"

\* An exception leaves main(): nothing after the raising call runs.
Raise(entry, exception) ==
    /\ log' = Append(log, entry)
    /\ err' = exception
    /\ pc' = "aborted"

\* Mutant: the test of parsed.write_files is inverted.
AfterMigration_inverted == IF write_files THEN "loop" ELSE "write"

\* Where main() goes after the 'if parsed.migrate_database' branch.
AfterMigration == IF write_files THEN "write" ELSE "loop"

\* Mutant: the test of parsed.migrate_database is inverted.
AfterYield_inverted ==
    IF ~migrate_database
    THEN IF adapter_type # "bigquery" THEN "begin" ELSE "backup"
    ELSE AfterMigration

\* The head of the loop body: 'if parsed.migrate_database' enters
\* perform_table_migration, which begins a transaction unless on bigquery.
AfterYield ==
    IF migrate_database
    THEN IF adapter_type # "bigquery" THEN "begin" ELSE "backup"
    ELSE AfterMigration

\* Mutant: the alter-table strategy is kept for the adapters the script
\* names, every other adapter gets the projection.
migrate_archive_table_named(type) ==
    IF type \in {"postgres", "snowflake"} THEN "alter" ELSE "bigquery"

\* migrate_archive_table: the strategy is the projection on bigquery and the
\* alter-table renames on everything else.
migrate_archive_table(type) ==
    IF type = "bigquery" THEN "bigquery" ELSE "alter"

\* for target, contents in collect_migration_targets(adapter, cfg)
NextTarget ==
    /\ pc = "loop"
    /\ LET r == get_archive_configs(cfg, gen)
       IN  /\ gen' = [g |-> r.g, t |-> r.t]
           /\ CASE r.kind = "stop" ->
                    /\ pc' = "report"
                    /\ UNCHANGED <<n, archive, target, contents, err>>
                [] r.kind = "error" ->
                    /\ pc' = "aborted"
                    /\ err' = "KeyError"
                    /\ UNCHANGED <<n, archive, target, contents>>
                [] r.kind = "yield" ->
                    LET a == TableCopy(cfg[r.g], cfg[r.g].tables[r.t])
                    IN  /\ archive' = a
                        /\ target' = Relation(a.target_database,
                                              a.target_schema, a.target_table)
                        /\ contents' = build_archive_data(a)
                        /\ n' = n + 1
                        /\ pc' = AfterYield
                        /\ err' = err
    /\ UNCHANGED <<rename_columns, renames>>
    /\ UNCHANGED <<cfg, adapter_type, migrate_database, write_files, backup,
                   k, database, txn_open, files, log, backups_made,
                   archives_written, summary>>

\* perform_table_migration: adapter.connections.add_begin_query()
BeginTransaction ==
    /\ pc = "begin"
    /\ \E ok \in BOOLEAN :
          IF ok
          THEN /\ txn_open' = TRUE
               /\ log' = Append(log, Entry("begin", target, <<>>, TRUE))
               /\ pc' = "backup"
               /\ err' = err
          ELSE /\ Raise(Entry("begin", target, <<>>, FALSE), "DatabaseError")
               /\ UNCHANGED txn_open
    /\ UNCHANGED <<rename_columns, renames>>
    /\ UNCHANGED <<cfg, adapter_type, migrate_database, write_files, gen, n,
                   archive, target, contents, backup, k, database, files,
                   backups_made, archives_written, summary>>

\* Mutant: the backup name leaves out the identifier of the table.
BackupName_constant(identifier) == "dbt_archive_migration_backup"

BackupName(identifier) == identifier \o "_dbt_archive_migration_backup"

\* Mutant: the statement is 'create or replace table ... as', which
\* overwrites a backup that is already there.
backup_relation_replace ==
    /\ pc = "backup"
    /\ LET new_name == BackupName(target.identifier)
           rel == [target EXCEPT !.identifier = new_name]
       IN  \E ok \in BOOLEAN :
             IF ok /\ target \in DOMAIN database
             THEN /\ database' =
                        (rel :> database[target])
                            @@ [r \in DOMAIN database \ {rel} |-> database[r]]
                  /\ log' = Append(log, Entry("create_table_as", target,
                                              <<new_name>>, TRUE))
                  /\ backup' = rel
                  /\ k' = 1
                  /\ pc' = migrate_archive_table(adapter_type)
                  /\ err' = err
             ELSE /\ Raise(Entry("create_table_as", target, <<new_name>>,
                                 FALSE), "DatabaseError")
                  /\ UNCHANGED <<database, backup, k>>
    /\ UNCHANGED <<rename_columns, renames>>
    /\ UNCHANGED <<cfg, adapter_type, migrate_database, write_files, gen, n,
                   archive, target, contents, txn_open, files, backups_made,
                   archives_written, summary>>

\* Mutant: a backup statement that fails is logged and the migration of the
\* table goes on.
backup_relation_failure_ignored ==
    /\ pc = "backup"
    /\ LET new_name == BackupName(target.identifier)
           rel == [target EXCEPT !.identifier = new_name]
       IN  \E ok \in BOOLEAN :
             IF ok /\ CanCreateTableAs(database, rel, target)
             THEN /\ database' = CreateTableAs(database, rel, target)
                  /\ log' = Append(log, Entry("create_table_as", target,
                                              <<new_name>>, TRUE))
                  /\ backup' = rel
             ELSE /\ log' = Append(log, Entry("create_table_as", target,
                                              <<new_name>>, FALSE))
                  /\ UNCHANGED <<database, backup>>
    /\ k' = 1
    /\ pc' = migrate_archive_table(adapter_type)
    /\ UNCHANGED <<rename_columns, renames>>
    /\ UNCHANGED <<cfg, adapter_type, migrate_database, write_files, gen, n,
                   archive, target, contents, txn_open, files, backups_made,
                   archives_written, err, summary>>

\* backup_relation(adapter, archive_target)
backup_relation ==
    /\ pc = "backup"
    /\ LET new_name == BackupName(target.identifier)
           rel == [target EXCEPT !.identifier = new_name]
       IN  \E ok \in BOOLEAN :
             IF ok /\ CanCreateTableAs(database, rel, target)
             THEN /\ database' = CreateTableAs(database, rel, target)
                  /\ log' = Append(log, Entry("create_table_as", target,
                                              <<new_name>>, TRUE))
                  /\ backup' = rel
                  /\ k' = 1
                  /\ pc' = migrate_archive_table(adapter_type)
                  /\ err' = err
             ELSE /\ Raise(Entry("create_table_as", target, <<new_name>>,
                                 FALSE), "DatabaseError")
                  /\ UNCHANGED <<database, backup, k>>
    /\ UNCHANGED <<rename_columns, renames>>
    /\ UNCHANGED <<cfg, adapter_type, migrate_database, write_files, gen, n,
                   archive, target, contents, txn_open, files, backups_made,
                   archives_written, summary>>

\* Mutant: RENAME_COLUMNS is a list, so 'renames += ...' extends the module
\* global in place.
Renames_in_place(global, type) ==
    IF type = "snowflake"
    THEN [renames |-> global \o << <<"dbt_updated_at", "dbt_updated_at">> >>,
          global |-> global \o << <<"dbt_updated_at", "dbt_updated_at">> >>]
    ELSE [renames |-> global, global |-> global]

\* Mutant: the pairs are walked from the last to the first.
Renames_reversed(global, type) ==
    LET rs == IF type = "snowflake"
              THEN global \o << <<"dbt_updated_at", "dbt_updated_at">> >>
              ELSE global
    IN  [renames |-> [i \in 1..Len(rs) |-> rs[Len(rs) + 1 - i]],
         global |-> global]

\* Lines 71-73, given the value the module global is bound to: the pairs
\* migrate_archive_alter_table walks, and the value of the global afterwards.
\* RENAME_COLUMNS is a tuple, so 'renames += ...' rebinds the local name to a
\* new tuple and leaves the global as it was.
Renames(global, type) ==
    IF type = "snowflake"
    THEN [renames |-> global \o << <<"dbt_updated_at", "dbt_updated_at">> >>,
          global |-> global]
    ELSE [renames |-> global, global |-> global]

\* One turn of the loop of migrate_archive_alter_table, the first one with
\* lines 71-73 before it; after the last one perform_table_migration goes on
\* to the commit.
migrate_archive_alter_table ==
    /\ pc = "alter"
    /\ LET entered == IF k = 1 THEN Renames(rename_columns, adapter_type)
                      ELSE [renames |-> renames, global |-> rename_columns]
           old == Quote(adapter_type, entered.renames[k][1])
           new == entered.renames[k][2]
           oldc == ResolveIdentifier(adapter_type, old)
           newc == ResolveIdentifier(adapter_type, new)
       IN  /\ renames' = entered.renames
           /\ rename_columns' = entered.global
           /\ \E ok \in BOOLEAN :
                 IF ok /\ CanRenameColumn(database, target, oldc, newc)
                 THEN /\ database' =
                            RenameColumn(database, target, oldc, newc)
                      /\ log' = Append(log, Entry("alter_table", target,
                                                  <<old, new>>, TRUE))
                      /\ IF k = Len(entered.renames)
                         THEN pc' = "commit" /\ k' = k
                         ELSE pc' = pc /\ k' = k + 1
                      /\ err' = err
                 ELSE /\ Raise(Entry("alter_table", target, <<old, new>>,
                                     FALSE), "DatabaseError")
                      /\ UNCHANGED <<database, k>>
    /\ UNCHANGED <<cfg, adapter_type, migrate_database, write_files, gen, n,
                   archive, target, contents, backup, txn_open, files,
                   backups_made, archives_written, summary>>

\* Mutant: every old column is selected under the new name of the pair after
\* it.
ProjectionPairs_misaligned(global, type) ==
    [i \in 1..Len(global) |->
        << Quote(type, global[i][1]), global[(i % Len(global)) + 1][2] >>]

\* Lines 87-91: the columns the projection leaves out of 'select *' and
\* selects again under their new names, old name quoted and new name not.
ProjectionPairs(global, type) ==
    [i \in 1..Len(global) |-> << Quote(type, global[i][1]), global[i][2] >>]

\* migrate_archive_bigquery, then the return of perform_table_migration into
\* backups_made.append (bigquery issues no commit).
migrate_archive_bigquery ==
    /\ pc = "bigquery"
    /\ LET items == ProjectionPairs(rename_columns, adapter_type)
           except_str ==
               Join([i \in 1..Len(rename_columns) |->
                        Quote(adapter_type, rename_columns[i][1])], ", ")
           rename_str ==
               Join([i \in 1..Len(items) |->
                        items[i][1] \o " as " \o items[i][2]], ", ")
           pairs ==
               [i \in 1..Len(items) |->
                   << ResolveIdentifier(adapter_type, items[i][1]),
                      ResolveIdentifier(adapter_type, items[i][2]) >>]
       IN  \E ok \in BOOLEAN :
             IF ok /\ CanProject(database, target, pairs)
             THEN /\ database' = Project(database, target, pairs)
                  /\ log' = Append(log, Entry("create_table", target,
                                              <<except_str, rename_str>>,
                                              TRUE))
                  /\ backups_made' = Append(backups_made, backup)
                  /\ pc' = AfterMigration
                  /\ err' = err
             ELSE /\ Raise(Entry("create_table", target,
                                 <<except_str, rename_str>>, FALSE),
                           "DatabaseError")
                  /\ UNCHANGED <<database, backups_made>>
    /\ UNCHANGED <<rename_columns, renames>>
    /\ UNCHANGED <<cfg, adapter_type, migrate_database, write_files, gen, n,
                   archive, target, contents, backup, k, txn_open, files,
                   archives_written, summary>>

\* Mutant: perform_table_migration returns without the commit query.
CommitTransaction_skipped ==
    /\ pc = "commit"
    /\ backups_made' = Append(backups_made, backup)
    /\ pc' = AfterMigration
    /\ UNCHANGED <<rename_columns, renames>>
    /\ UNCHANGED <<cfg, adapter_type, migrate_database, write_files, gen, n,
                   archive, target, contents, backup, k, database, txn_open,
                   files, log, archives_written, err, summary>>

\* perform_table_migration: adapter.connections.add_commit_query(), then the
\* return into backups_made.append.
CommitTransaction ==
    /\ pc = "commit"
    /\ \E ok \in BOOLEAN :
          IF ok
          THEN /\ txn_open' = FALSE
               /\ log' = Append(log, Entry("commit", target, <<>>, TRUE))
               /\ backups_made' = Append(backups_made, backup)
               /\ pc' = AfterMigration
               /\ err' = err
          ELSE /\ Raise(Entry("commit", target, <<>>, FALSE), "DatabaseError")
               /\ UNCHANGED <<txn_open, backups_made>>
    /\ UNCHANGED <<rename_columns, renames>>
    /\ UNCHANGED <<cfg, adapter_type, migrate_database, write_files, gen, n,
                   archive, target, contents, backup, k, database, files,
                   archives_written, summary>>

\* Mutant: a file that could not be written raises instead of being logged.
write_migration_file_raises ==
    /\ pc = "write"
    /\ LET path == "archives" \o "/" \o target.identifier \o ".sql"
           wrote == path \notin DOMAIN files
       IN  IF wrote
           THEN /\ files' = (path :> contents) @@ files
                /\ log' = Append(log, Entry("make_file", target, <<path>>,
                                            TRUE))
                /\ archives_written' = Append(archives_written, target)
                /\ pc' = "loop"
                /\ err' = err
           ELSE /\ Raise(Entry("make_file", target, <<path>>, FALSE),
                         "FileWriteError")
                /\ UNCHANGED <<files, archives_written>>
    /\ UNCHANGED <<rename_columns, renames>>
    /\ UNCHANGED <<cfg, adapter_type, migrate_database, write_files, gen, n,
                   archive, target, contents, backup, k, database, txn_open,
                   backups_made, summary>>

ArchivePath == "archives"

\* write_migration_file(target, archive_path, contents) and the append of
\* its return value; system.make_file writes only a file that is not there.
write_migration_file ==
    /\ pc = "write"
    /\ LET path == ArchivePath \o "/" \o target.identifier \o ".sql"
           wrote == path \notin DOMAIN files
       IN  /\ files' = IF wrote THEN (path :> contents) @@ files ELSE files
           /\ log' = Append(log, Entry("make_file", target, <<path>>, wrote))
           /\ archives_written' = Append(archives_written, target)
    /\ pc' = "loop"
    /\ UNCHANGED <<rename_columns, renames>>
    /\ UNCHANGED <<cfg, adapter_type, migrate_database, write_files, gen, n,
                   archive, target, contents, backup, k, database, txn_open,
                   backups_made, err, summary>>

\* Mutant: the report forgets the list of written archive files.
Report_backups_only ==
    /\ pc = "report"
    /\ summary' = [emitted |-> TRUE, backups |-> backups_made,
                   archives |-> <<>>]
    /\ pc' = "done"
    /\ UNCHANGED <<rename_columns, renames>>
    /\ UNCHANGED <<cfg, adapter_type, migrate_database, write_files, gen, n,
                   archive, target, contents, backup, k, database, txn_open,
                   files, log, backups_made, archives_written, err>>

\* The end of main(): 'Migration complete!' and the two lists.
Report ==
    /\ pc = "report"
    /\ summary' = [emitted |-> TRUE, backups |-> backups_made,
                   archives |-> archives_written]
    /\ pc' = "done"
    /\ UNCHANGED <<rename_columns, renames>>
    /\ UNCHANGED <<cfg, adapter_type, migrate_database, write_files, gen, n,
                   archive, target, contents, backup, k, database, txn_open,
                   files, log, backups_made, archives_written, err>>

Next ==
    \/ NextTarget
    \/ BeginTransaction
    \/ backup_relation
    \/ migrate_archive_alter_table
    \/ migrate_archive_bigquery
    \/ CommitTransaction
    \/ write_migration_file
    \/ Report

Spec == Init /\ [][Next]_vars

\* main() is one sequential thread: whenever it can take a step, it does.
FairSpec == Spec /\ WF_vars(Next)

\* main() run with --no-database-operations and --no-files: the loop only
\* draws the targets from get_archive_configs, whatever the adapter.  The
\* two optional database keys of a group are given or omitted independently
\* of each other.
PlanInit ==
    /\ \E c \in Configs : \E sdb \in [1..Len(c) -> DatabaseOpt] :
          cfg = [h \in 1..Len(c) |->
                    [c[h] EXCEPT !.source_database = sdb[h]]]
    /\ adapter_type = "postgres"
    /\ migrate_database = FALSE
    /\ write_files = FALSE
    /\ pc = "loop"
    /\ gen = [g |-> 0, t |-> 0]
    /\ n = 0
    /\ archive = <<>>
    /\ target = NoRelation
    /\ contents = <<>>
    /\ backup = NoRelation
    /\ k = 1
    /\ database = [r \in InitialRelations |-> LegacyColumns]
    /\ txn_open = FALSE
    /\ files = <<>>
    /\ log = <<>>
    /\ backups_made = <<>>
    /\ archives_written = <<>>
    /\ err = "none"
    /\ summary = NoSummary
    /\ rename_columns = RENAME_COLUMNS
    /\ renames = <<>>

PlanNext ==
    \/ NextTarget
    \/ Report

PlanSpec == PlanInit /\ [][PlanNext]_vars

TypeOK ==
    /\ pc \in {"loop", "begin", "backup", "alter", "bigquery", "commit",
                "write", "report", "done", "aborted"}
    /\ err \in {"none", "KeyError", "DatabaseError"}
    /\ txn_open \in BOOLEAN

\* ================================================================== claims
\* The migration plan the configuration asks for: every table entry of every
\* group, groups in order and tables within a group in order.
RECURSIVE PlanFrom(_)
PlanFrom(h) ==
    IF h > Len(cfg) THEN <<>>
    ELSE [i \in 1..Len(cfg[h].tables) |->
             Relation(Get(cfg[h], "target_database", DefaultDatabase),
                      cfg[h].target_schema,
                      cfg[h].tables[i].target_table)] \o PlanFrom(h + 1)

Plan == PlanFrom(1)

Positions == 1..Len(log)
DatabaseKinds == {"begin", "create_table_as", "alter_table", "create_table",
                  "commit"}
RenameKinds == {"alter_table", "create_table"}
Finished == pc \in {"done", "aborted"}

\* The log as (table, kind) pairs.
Steps == [i \in Positions |-> <<log[i].idx, log[i].kind>>]

IsPrefix(s, t) ==
    Len(s) <= Len(t) /\ \A i \in 1..Len(s) : s[i] = t[i]

\* C1: tables are migrated one at a time in configuration order: the i-th
\* table the run works on is the i-th table entry of the configuration, and
\* every statement and file emission of a table precedes every one of the
\* tables after it.
C1_ConfigurationOrder ==
    LET plan == Plan
    IN  /\ \A i \in Positions :
              /\ log[i].idx \in 1..Len(plan)
              /\ log[i].rel = plan[log[i].idx]
        /\ \A i \in 1..(Len(log) - 1) : log[i].idx <= log[i + 1].idx
        /\ n <= Len(plan)
        /\ n >= 1 => target = plan[n]

C1_Witness ==
    /\ pc = "done" /\ migrate_database /\ write_files
    /\ Len(cfg) = 2 /\ Len(cfg[1].tables) = 2 /\ n >= 3
    /\ \E i, j \in Positions :
          log[i].idx = 2 /\ log[j].idx = 3 /\ log[i].rel # log[j].rel

\* Successful statements of a kind among the first m log entries.
Count(kind, m) ==
    Cardinality({i \in 1..m : log[i].kind = kind /\ log[i].ok})

\* The transactions open after the first m log entries: the begins that
\* succeeded less the commits that succeeded.
RECURSIVE OpenAfter(_)
OpenAfter(m) ==
    IF m = 0 THEN 0
    ELSE IF log[m].kind = "begin" /\ log[m].ok THEN OpenAfter(m - 1) + 1
    ELSE IF log[m].kind = "commit" /\ log[m].ok THEN OpenAfter(m - 1) - 1
    ELSE OpenAfter(m - 1)

\* The i-th statement is issued with no transaction open (0) or inside the
\* one the begin of the same table opened (1).
InBracket(i, open) ==
    /\ open \in {0, 1}
    /\ log[i].kind = "begin" => open = 0
    /\ log[i].kind = "commit" => open = 1
    /\ log[i].kind = "make_file" => open = 0
    /\ (adapter_type # "bigquery"
          /\ log[i].kind \in {"create_table_as", "alter_table"}) => open = 1
    /\ open = 1 => log[i].idx = log[i - 1].idx

\* C2: begin and commit are issued only off bigquery; at most one transaction
\* is open, no begin is issued while one is open, the backup and the renames
\* of a table run inside the transaction of that table, and a transaction
\* never holds statements of two tables nor a file emission.
C2_TransactionBrackets ==
    /\ adapter_type = "bigquery" =>
          /\ ~txn_open
          /\ \A i \in Positions : log[i].kind \notin {"begin", "commit"}
    /\ \A i \in Positions : InBracket(i, OpenAfter(i - 1))
    /\ OpenAfter(Len(log)) \in {0, 1}
    /\ txn_open <=> OpenAfter(Len(log)) = 1

C2_Witness ==
    /\ pc = "done" /\ adapter_type = "postgres" /\ ~txn_open
    /\ \E i, j \in Positions :
          /\ log[i].kind = "begin" /\ log[j].kind = "begin"
          /\ log[i].idx = 1 /\ log[j].idx = 2
    /\ Count("commit", Len(log)) = 2

\* The steps of one table when the database is migrated and files are
\* written: the backup, the rename strategy, the definition file, and the
\* transaction around the first two off bigquery.
TableSteps(i) ==
    IF adapter_type = "bigquery"
    THEN << <<i, "create_table_as">>, <<i, "create_table">>,
            <<i, "make_file">> >>
    ELSE << <<i, "begin">>, <<i, "create_table_as">> >>
         \o [j \in 1..(IF adapter_type = "snowflake" THEN 4 ELSE 3) |->
                <<i, "alter_table">>]
         \o << <<i, "commit">>, <<i, "make_file">> >>

RECURSIVE StepsUpTo(_)
StepsUpTo(m) == IF m = 0 THEN <<>> ELSE StepsUpTo(m - 1) \o TableSteps(m)

\* C3: with both flags on and no error every table goes through backup,
\* rename strategy and definition file, once each and in that order; one
\* table on bigquery gives one backup, one projection, one file written.
C3_LinearSequence ==
    (migrate_database /\ write_files /\ err = "none") =>
        /\ IsPrefix(Steps, StepsUpTo(n))
        /\ pc \in {"loop", "report", "done"} =>
              /\ Steps = StepsUpTo(n)
              /\ Len(backups_made) = n
              /\ Len(archives_written) = n
        /\ pc = "done" => n = Len(Plan)
        /\ (pc = "done" /\ adapter_type = "bigquery" /\ Len(Plan) = 1) =>
              /\ Steps = << <<1, "create_table_as">>, <<1, "create_table">>,
                            <<1, "make_file">> >>
              /\ \A i \in Positions : log[i].ok
              /\ Cardinality(DOMAIN files) = 1
              /\ Cardinality(DOMAIN database)
                    = Cardinality(InitialRelations) + 1

C3_Witness ==
    /\ pc = "done" /\ err = "none" /\ migrate_database /\ write_files
    /\ adapter_type = "bigquery" /\ Len(Plan) = 1 /\ Len(log) = 3

\* C4: with --no-database-operations and without --no-files the run makes
\* no backup and issues no statement to the session, and a run that gets
\* through the configuration has emitted one definition file per table.
C4_FilesOnly ==
    (~migrate_database /\ write_files) =>
        /\ backups_made = <<>>
        /\ ~txn_open
        /\ database = [r \in InitialRelations |-> LegacyColumns]
        /\ \A i \in Positions : log[i].kind = "make_file"
        /\ pc \in {"loop", "report", "done"} =>
              Steps = [i \in 1..n |-> <<i, "make_file">>]
        /\ pc = "done" => n = Len(Plan)

C4_Witness ==
    /\ pc = "done" /\ ~migrate_database /\ write_files
    /\ Len(Plan) = 3 /\ Len(log) = 3

\* The backup address of a relation: the same database and schema, the
\* identifier with the backup suffix.
BackupOf(rel) ==
    [rel EXCEPT !.identifier = @ \o "_dbt_archive_migration_backup"]

\* C5: a backup of a table whose backup name is taken fails and changes
\* nothing: the existing backup and the source stay as they are, the one
\* statement issued is the failed 'create table', and no backup is recorded.
C5_BackupConflict ==
    [][(pc = "backup" /\ BackupOf(target) \in DOMAIN database) =>
          /\ database' = database
          /\ files' = files
          /\ backups_made' = backups_made
          /\ err' = "DatabaseError"
          /\ pc' = "aborted"
          /\ log' = Append(log, [idx |-> n, kind |-> "create_table_as",
                                 rel |-> target,
                                 arg |-> <<BackupOf(target).identifier>>,
                                 ok |-> FALSE])]_vars

\* The i-th statement is a backup that failed on a taken backup name.
ConflictAt(i) ==
    /\ log[i].kind = "create_table_as"
    /\ ~log[i].ok
    /\ BackupOf(log[i].rel) \in DOMAIN database

C5_Witness ==
    /\ pc = "aborted"
    /\ Len(log) >= 1 /\ ConflictAt(Len(log))
    /\ \E i \in Positions :
          /\ log[i].kind = "create_table_as" /\ log[i].ok
          /\ log[i].rel = log[Len(log)].rel
    /\ database[BackupOf(target)] = LegacyColumns

\* C6 as stated: after a backup conflict on a table the table is not renamed,
\* its definition file is emitted when files are enabled, and the run goes
\* on through every later table.
C6_ConflictScopedToTable ==
    \A i \in Positions :
        (ConflictAt(i) /\ Finished) =>
            /\ \A j \in Positions :
                  log[j].idx = log[i].idx => log[j].kind \notin RenameKinds
            /\ write_files =>
                  \E j \in Positions :
                      log[j].idx = log[i].idx /\ log[j].kind = "make_file"
            /\ pc = "done" /\ n = Len(Plan)

\* C6 amended: a backup conflict ends the run: the failed backup is the last
\* statement, the table is neither renamed nor given a definition file, no
\* later table is taken up and no report is logged.
C6_ConflictFatal ==
    \A i \in Positions :
        ConflictAt(i) =>
            /\ i = Len(log)
            /\ pc = "aborted" /\ err = "DatabaseError"
            /\ n = log[i].idx
            /\ \A j \in Positions :
                  log[j].idx = log[i].idx =>
                      log[j].kind \notin RenameKinds \cup {"make_file"}
            /\ ~summary.emitted

C6_Witness ==
    /\ write_files /\ n < Len(Plan) /\ n >= 2
    /\ Len(log) >= 1 /\ ConflictAt(Len(log))

\* C7: a failed rename statement or projection ends the run at once: it is
\* the last statement, no definition file is emitted for its table, no later
\* table is taken up and no report is logged.
C7_RenameFailureAborts ==
    \A i \in Positions :
        (log[i].kind \in RenameKinds /\ ~log[i].ok) =>
            /\ i = Len(log)
            /\ pc = "aborted" /\ err # "none"
            /\ n = log[i].idx
            /\ \A j \in Positions :
                  log[j].idx = log[i].idx => log[j].kind # "make_file"
            /\ Len(archives_written) <= n - 1
            /\ Len(backups_made) = n - 1
            /\ ~summary.emitted

C7_Witness ==
    /\ write_files /\ n < Len(Plan)
    /\ Len(log) >= 2
    /\ log[Len(log)].kind = "alter_table" /\ ~log[Len(log)].ok
    /\ log[Len(log) - 1].kind = "alter_table" /\ log[Len(log) - 1].ok

InvalidGroups ==
    {h \in 1..Len(cfg) :
        cfg[h].target_schema = Absent \/ cfg[h].source_schema = Absent}

FirstInvalid == CHOOSE h \in InvalidGroups : \A o \in InvalidGroups : h <= o

RECURSIVE TablesBefore(_)
TablesBefore(h) ==
    IF h <= 1 THEN 0 ELSE TablesBefore(h - 1) + Len(cfg[h - 1].tables)

Untouched ==
    /\ log = <<>>
    /\ DOMAIN files = {}
    /\ database = [r \in InitialRelations |-> LegacyColumns]

\* C8 as stated: when a group of the configuration lacks target_schema or
\* source_schema, no statement is issued and no file is written for any
\* table, the tables of the valid groups before it included.
C8_InvalidConfigTouchesNothing ==
    InvalidGroups # {} => Untouched

\* C8 amended: the run aborts when the plan builder reaches the first invalid
\* group: no table of that group or of a later one is taken up, and the
\* tables of the groups before it have been processed by then.
C8_AbortsAtInvalidGroup ==
    InvalidGroups # {} =>
      LET before == TablesBefore(FirstInvalid)
      IN
        /\ n <= before
        /\ \A i \in Positions : log[i].idx <= before
        /\ pc # "done" /\ pc # "report"
        /\ err = "KeyError" =>
              /\ pc = "aborted"
              /\ gen.g = FirstInvalid
              /\ n = before
              /\ migrate_database => Len(backups_made) = n
              /\ write_files => Len(archives_written) = n
              /\ ~summary.emitted

C8_Witness ==
    /\ err = "KeyError" /\ FirstInvalid = 2 /\ n = 2
    /\ migrate_database /\ write_files
    /\ Len(backups_made) = 2 /\ Len(archives_written) = 2

\* C9 as stated: on a backend that is neither bigquery nor one of the
\* rename-capable backends the script names, no rename, projection or
\* transaction statement is issued.
C9_UnknownBackendRejected ==
    adapter_type \notin {"bigquery", "postgres", "snowflake"} =>
        \A i \in Positions :
            log[i].kind \notin {"alter_table", "create_table", "begin",
                                "commit"}

\* The database statements of a table under the alter-table strategy with
\* the three base pairs.
AlterSteps(i) ==
    << <<i, "begin">>, <<i, "create_table_as">>, <<i, "alter_table">>,
       <<i, "alter_table">>, <<i, "alter_table">>, <<i, "commit">> >>

RECURSIVE AlterStepsUpTo(_)
AlterStepsUpTo(m) ==
    IF m = 0 THEN <<>> ELSE AlterStepsUpTo(m - 1) \o AlterSteps(m)

IsDatabaseStep(step) == step[2] \in DatabaseKinds

\* C9 amended: a backend the script does not name is not rejected: like every
\* backend other than bigquery it gets the alter-table renames inside a
\* begin/commit pair, and never the projection.
C9_UnknownBackendDefaultsToAlter ==
    adapter_type \notin {"bigquery", "postgres", "snowflake"} =>
        /\ \A i \in Positions : log[i].kind # "create_table"
        /\ err \in {"none", "KeyError", "DatabaseError"}
        /\ (migrate_database /\ err = "none") =>
              /\ IsPrefix(SelectSeq(Steps, IsDatabaseStep), AlterStepsUpTo(n))
              /\ pc \in {"write", "loop", "report", "done"} =>
                    SelectSeq(Steps, IsDatabaseStep) = AlterStepsUpTo(n)

C9_Witness ==
    /\ adapter_type = "other" /\ pc = "done" /\ err = "none"
    /\ migrate_database /\ n >= 2
    /\ Count("commit", Len(log)) = n

Range(s) == {s[i] : i \in 1..Len(s)}

BackupsCreated == DOMAIN database \ InitialRelations

\* The report is out and names every backup created and every table a
\* definition file was written for.
SummaryComplete ==
    /\ summary.emitted
    /\ BackupsCreated \subseteq Range(summary.backups)
    /\ \A i \in Positions :
          (log[i].kind = "make_file" /\ log[i].ok)
              => log[i].rel \in Range(summary.archives)

\* C10 as stated: every run ends with the report, a run cut short by a fatal
\* error after backups were created included.
C10_EveryRunReports ==
    Finished => SummaryComplete

\* C10 amended: a run that no exception cuts short ends with the report of
\* every backup created and every definition file written; a run an
\* exception cuts short logs no report.
C10_CompletedRunReports ==
    /\ [](pc = "aborted" => ~summary.emitted)
    /\ [](pc = "done" => SummaryComplete)
    /\ <>(pc = "aborted" \/ (pc = "done" /\ SummaryComplete))

C10_Witness ==
    /\ pc = "done" /\ summary.emitted
    /\ Len(summary.backups) >= 2 /\ Len(summary.archives) >= 2

\* The relations of the successful file emissions, in issue order.
WrittenStep(e) == e.kind = "make_file" /\ e.ok

Written ==
    LET w == SelectSeq(log, WrittenStep)
    IN  [i \in 1..Len(w) |-> w[i].rel]

\* C11: the list of written definitions names a table if and only if a
\* definition file was written for it in this run: an emission that wrote
\* nothing, the file being there already, adds no entry.
C11_ListedIffWritten ==
    /\ archives_written = Written
    /\ summary.emitted => summary.archives = Written

\* The steps of one table under the flags of the run.
FlagStep(step) ==
    IF step[2] = "make_file" THEN write_files ELSE migrate_database

RECURSIVE FlagStepsUpTo(_)
FlagStepsUpTo(m) ==
    IF m = 0 THEN <<>>
    ELSE FlagStepsUpTo(m - 1) \o SelectSeq(TableSteps(m), FlagStep)

FailedWriteAt(i) == log[i].kind = "make_file" /\ ~log[i].ok

BackupStep(e) == e.kind = "create_table_as" /\ e.ok

\* C13 as stated: the backup of a table is named <identifier>_migration_backup.
C13_BackupNameAsStated ==
    \A i \in Positions :
        log[i].kind = "create_table_as" =>
            log[i].arg[1] = log[i].rel.identifier \o "_migration_backup"

\* C13 amended: the backup of a table is named
\* <identifier>_dbt_archive_migration_backup, in the database and schema of
\* the table, and two backups made for tables of different identifiers have
\* different addresses.
C13_BackupNameDerived ==
    /\ \A i \in Positions :
          log[i].kind = "create_table_as" =>
              log[i].arg[1] =
                  log[i].rel.identifier \o "_dbt_archive_migration_backup"
    /\ \A i \in 1..Len(backups_made) :
          \E j \in Positions :
              /\ BackupStep(log[j]) /\ log[j].idx = i
              /\ backups_made[i] =
                     [database |-> log[j].rel.database,
                      schema |-> log[j].rel.schema,
                      identifier |-> log[j].arg[1]]
              /\ backups_made[i] \in DOMAIN database
    /\ LET plan == Plan
       IN  \A i, j \in 1..Len(backups_made) :
              plan[i].identifier # plan[j].identifier
                  => backups_made[i] # backups_made[j]

C13_Witness ==
    /\ pc = "done" /\ Len(backups_made) = 3
    /\ \E i, j \in 1..3 : Plan[i].identifier # Plan[j].identifier

\* The alter-table statements issued so far for the table being worked on,
\* as (old, new) identifier pairs.
AlterArgs ==
    LET mine(e) == e.kind = "alter_table" /\ e.idx = n
        w == SelectSeq(log, mine)
    IN  [i \in 1..Len(w) |-> w[i].arg]

\* The statements a completed alter-table migration has issued, by backend.
AlterArgsExpected ==
    << <<"\"valid_from\"", "dbt_valid_from">>,
       <<"\"valid_to\"", "dbt_valid_to">>,
       <<"\"scd_id\"", "dbt_scd_id">> >>
    \o (IF adapter_type = "snowflake"
        THEN << <<"\"dbt_updated_at\"", "dbt_updated_at">> >>
        ELSE <<>>)

\* The columns of a table a completed alter-table migration leaves, by
\* backend.
AlterColumnsExpected ==
    IF adapter_type = "snowflake"
    THEN << [name |-> "id", data |-> "id"],
            [name |-> "DBT_VALID_FROM", data |-> "valid_from"],
            [name |-> "DBT_VALID_TO", data |-> "valid_to"],
            [name |-> "DBT_SCD_ID", data |-> "scd_id"],
            [name |-> "DBT_UPDATED_AT", data |-> "dbt_updated_at"] >>
    ELSE << [name |-> "id", data |-> "id"],
            [name |-> "dbt_valid_from", data |-> "valid_from"],
            [name |-> "dbt_valid_to", data |-> "valid_to"],
            [name |-> "dbt_scd_id", data |-> "scd_id"],
            [name |-> "dbt_updated_at", data |-> "dbt_updated_at"] >>

\* C14: the alter-table strategy renames the columns of the table in place, in
\* the order of the mapping, one statement per pair with the old name quoted
\* and the new name not; when it is through, three columns (four with the
\* identity pair of snowflake) have changed name and every column is where it
\* was, with the data it had.
C14_AlterRenameInPlace ==
    pc = "commit" =>
        /\ AlterArgs = AlterArgsExpected
        /\ database[target] = AlterColumnsExpected

C14_Witness ==
    /\ pc = "commit"
    /\ adapter_type = "snowflake"
    /\ Len(AlterArgs) = 4
    /\ n = 2

\* The columns of a table the projection has recreated.
ProjectedColumnsExpected ==
    << [name |-> "id", data |-> "id"],
       [name |-> "dbt_updated_at", data |-> "dbt_updated_at"],
       [name |-> "dbt_valid_from", data |-> "valid_from"],
       [name |-> "dbt_valid_to", data |-> "valid_to"],
       [name |-> "dbt_scd_id", data |-> "scd_id"] >>

\* C15: the projection recreates the table at its own address; the columns
\* that are not renamed keep their data and their order among themselves,
\* every renamed column carries under its new name the values it had under
\* the old one, and no column is left under an old name.
C15_ProjectionRecreates ==
    [][ (pc = "bigquery" /\ pc' # "aborted") =>
           /\ DOMAIN database' = DOMAIN database
           /\ database'[target] = ProjectedColumnsExpected
           /\ \A r \in DOMAIN database \ {target} :
                  database'[r] = database[r]
           /\ NamesOf(database'[target])
                  \cap {"valid_from", "valid_to", "scd_id"} = {}
           /\ log'[Len(log')].rel = target ]_vars

C15_Witness ==
    /\ adapter_type = "bigquery"
    /\ Len(log) > 0
    /\ log[Len(log)].kind = "create_table"
    /\ log[Len(log)].ok
    /\ log[Len(log)].idx = 2
    /\ database[target] = ProjectedColumnsExpected

\* The table entries of the whole configuration.
RECURSIVE TotalTables(_)
TotalTables(h) ==
    IF h = 0 THEN 0 ELSE TotalTables(h - 1) + Len(cfg[h].tables)

\* The spec the plan builder owes for table t of group g: the entry's own
\* fields and the four address fields of the group, a database the group
\* omits being the default database.
SpecOf(g, t) ==
    [source_table |-> cfg[g].tables[t].source_table,
     target_table |-> cfg[g].tables[t].target_table,
     unique_key |-> cfg[g].tables[t].unique_key,
     updated_at |-> cfg[g].tables[t].updated_at,
     target_database |-> IF cfg[g].target_database = Absent
                         THEN "D" ELSE cfg[g].target_database,
     target_schema |-> cfg[g].target_schema,
     source_database |-> IF cfg[g].source_database = Absent
                         THEN "D" ELSE cfg[g].source_database,
     source_schema |-> cfg[g].source_schema]

\* C16: the plan builder yields one spec per table entry in the order of the
\* configuration; the n-th spec is the n-th table entry with the four
\* address fields of its group merged in, target_database and
\* source_database being the default database D when the group omits them;
\* when the builder stops, every table entry has been yielded.
C16_OneSpecPerTableEntry ==
    /\ (n >= 1 /\ pc = "loop") =>
          /\ gen.g \in 1..Len(cfg)
          /\ gen.t \in 1..Len(cfg[gen.g].tables)
          /\ n = TablesBefore(gen.g) + gen.t
          /\ archive = SpecOf(gen.g, gen.t)
    /\ pc \in {"report", "done"} => n = TotalTables(Len(cfg))

C16_Witness ==
    /\ n = 3
    /\ pc = "loop"
    /\ gen = [g |-> 2, t |-> 1]
    /\ cfg[2].target_database = Absent
    /\ cfg[2].source_database = "db1"
    /\ archive.target_database = "D"
    /\ archive.source_database = "db1"

\* C17: a group without target_schema or without source_schema makes the plan
\* builder raise on entering it: no spec handed out lacks a schema, and when
\* the error is raised the specs handed out are those of the groups before
\* it, none of the group's own tables among them however many it lists.
C17_RaisesBeforeYielding ==
    /\ n >= 1 =>
          /\ archive.target_schema # Absent
          /\ archive.source_schema # Absent
    /\ \A i \in Positions : log[i].rel.schema # Absent
    /\ err = "KeyError" =>
          /\ ~IsValid(cfg[gen.g])
          /\ n = TablesBefore(gen.g)

C17_Witness ==
    /\ err = "KeyError"
    /\ gen.g = 2
    /\ cfg[2].target_schema # Absent
    /\ cfg[2].source_schema = Absent
    /\ Len(cfg[2].tables) = 2
    /\ n = 1

\* The columns of a table after the first j pairs of the alter-table strategy
\* have been applied: pair j renames column j + 1.
PartiallyRenamed(j) ==
    [i \in 1..Len(LegacyColumns) |->
        IF i >= 2 /\ i <= j + 1 THEN AlterColumnsExpected[i]
        ELSE LegacyColumns[i]]

FailedRename(e) == e.kind = "alter_table" /\ ~e.ok

\* C18: when rename k of the alter-table strategy fails, the exception ends
\* the run there: the failed statement is the last one issued (no rollback,
\* no undo, no later rename, no commit), the k-1 renames before it are in
\* place and the columns after them still have their old names, and the run
\* ends with the error and without a report.
C18_PartialRenameLeftInPlace ==
    (\E i \in Positions : FailedRename(log[i])) =>
        /\ FailedRename(log[Len(log)])
        /\ Len(SelectSeq(log, FailedRename)) = 1
        /\ pc = "aborted" /\ err = "DatabaseError"
        /\ Len(AlterArgs) = k
        /\ database[target] = PartiallyRenamed(k - 1)
        /\ database[backup] = LegacyColumns
        /\ txn_open
        /\ ~summary.emitted

C18_Witness ==
    /\ Len(log) > 0
    /\ FailedRename(log[Len(log)])
    /\ k = 3
    /\ n = 2
    /\ database[target] = PartiallyRenamed(2)
    /\ database[target] # LegacyColumns

\* C19: no table is changed without a backup made before in the same run:
\* whenever a rename or a projection is issued against a table, successful
\* or not, the backup statement of that table has succeeded earlier for the
\* same table entry and the backup holds the table as it was; and the backup
\* step adds the backup and changes no relation that exists.
C19_BackupBeforeMutation ==
    [][
        /\ \A r \in DOMAIN database :
              /\ r \in DOMAIN database'
              /\ database'[r] # database[r] =>
                    /\ r = target
                    /\ pc \in {"alter", "bigquery"}
        /\ pc = "backup" =>
              \A o \in DOMAIN database : database'[o] = database[o]
        /\ (Len(log') > Len(log)
               /\ log'[Len(log')].kind \in RenameKinds) =>
              /\ log'[Len(log')].rel = target
              /\ \E j \in Positions :
                     log[j] = Entry("create_table_as", target,
                                    <<BackupName(target.identifier)>>, TRUE)
              /\ backup = [target EXCEPT !.identifier = BackupName(@)]
              /\ backup \in DOMAIN database
              /\ database[backup] = LegacyColumns
    ]_vars

C19_Witness ==
    /\ Len(log) >= 2
    /\ log[Len(log)].kind = "create_table"
    /\ log[Len(log) - 1].kind = "create_table_as"
    /\ log[Len(log) - 1].ok
    /\ log[Len(log)].idx = 3
    /\ database[backup] = LegacyColumns
    /\ database[target] # LegacyColumns

\* The statements of the projection over the three base pairs.
ProjectionArgExpected ==
    << "<backtick>valid_from<backtick>, <backtick>valid_to<backtick>, "
          \o "<backtick>scd_id<backtick>",
       "<backtick>valid_from<backtick> as dbt_valid_from, "
          \o "<backtick>valid_to<backtick> as dbt_valid_to, "
          \o "<backtick>scd_id<backtick> as dbt_scd_id" >>

CreateTableStep(e) == e.kind = "create_table"
AlterTableStep(e) == e.kind = "alter_table"

\* C20: no table migration changes the shared mapping: RENAME_COLUMNS is the
\* three base pairs in every state.  On snowflake the identity pair is added
\* to the local list of the call only, so every table of the run, the first
\* like the last, has got exactly four rename statements when its commit is
\* due; the projection is always built from the three base pairs.
C20_MappingUnchanged ==
    /\ rename_columns = << <<"valid_from", "dbt_valid_from">>,
                            <<"valid_to", "dbt_valid_to">>,
                            <<"scd_id", "dbt_scd_id">> >>
    /\ Len(renames) <= 4
    /\ (adapter_type = "snowflake" /\ pc = "commit") =>
          /\ Len(renames) = 4
          /\ Len(AlterArgs) = 4
          /\ Len(SelectSeq(log, AlterTableStep)) = 4 * n
    /\ \A i \in Positions :
          CreateTableStep(log[i]) => log[i].arg = ProjectionArgExpected

C20_Witness ==
    /\ adapter_type = "snowflake"
    /\ pc = "commit"
    /\ n = 3
    /\ Len(SelectSeq(log, AlterTableStep)) = 12
    /\ rename_columns = RENAME_COLUMNS

C20_ProjectionWitness ==
    /\ adapter_type = "bigquery"
    /\ Len(SelectSeq(log, CreateTableStep)) = 3

====
